---- MODULE Spec2Model ----
(***************************************************************************)
(* Model of the rash line parser: Batch::new (src/src/command.rs),         *)
(* Job::new (src/src/job.rs) and the read loop with its own Job::new       *)
(* (src/src/main.rs).                                                      *)
(*                                                                         *)
(* A line is a sequence of one-character strings.  Rust's byte offsets are *)
(* kept 0-based (find returns -1 for None); every character of the model   *)
(* alphabet is one byte wide, so byte offsets and character offsets agree. *)
(* A Rust panic (index or slice out of range) is the result kind "panic".  *)
(***************************************************************************)
EXTENDS Integers, Sequences, FiniteSets

VARIABLES line, pc, res

vars == <<line, pc, res>>

\* Longest input line explored.
MaxLen == 5

\* Alphabet of the input lines: two letters, the blank, the pipe, the two
\* redirection operators and the background marker.
Char == {"a", "b", " ", "|", "<", ">", "&"}

Lines == UNION {[1..n -> Char] : n \in 0..MaxLen}

-----------------------------------------------------------------------------
\* Option<T>: None is the empty sequence, Some(v) the one-element sequence.
None == <<>>
Some(v) == <<v>>

\* char::is_whitespace restricted to the alphabet.
IsWhitespace(c) == c = " "

\* str::find(char): 0-based offset of the first occurrence, -1 for None.
Find(s, c) ==
    IF \E i \in 1..Len(s) : s[i] = c
    THEN (CHOOSE i \in 1..Len(s) : s[i] = c /\ \A j \in 1..(i - 1) : s[j] # c) - 1
    ELSE -1

\* &s[n..]  (the caller guarantees n <= len)
SliceFrom(s, n) == SubSeq(s, n + 1, Len(s))

\* &s[..n]
SliceTo(s, n) == SubSeq(s, 1, n)

RECURSIVE TrimStart(_)
TrimStart(s) ==
    IF s # <<>> /\ IsWhitespace(s[1]) THEN TrimStart(Tail(s)) ELSE s

RECURSIVE TrimEnd(_)
TrimEnd(s) ==
    IF s # <<>> /\ IsWhitespace(s[Len(s)])
    THEN TrimEnd(SubSeq(s, 1, Len(s) - 1))
    ELSE s

\* str::trim
Trim(s) == TrimEnd(TrimStart(s))

\* str::split(pat) collected: the pieces between the occurrences of c;
\* always at least one piece, pieces may be empty.
RECURSIVE Split(_, _)
Split(s, c) ==
    LET p == Find(s, c)
    IN  IF p = -1 THEN <<s>>
        ELSE <<SliceTo(s, p)>> \o Split(SliceFrom(s, p + 1), c)

\* str::split_whitespace collected: the non-empty pieces between whitespace.
SplitWhitespace(s) == SelectSeq(Split(s, " "), LAMBDA t : t # <<>>)

-----------------------------------------------------------------------------
\* The value of a parse: kind "ok" carries the struct's fields, kind "panic"
\* is the thread unwinding out of the constructor.
Ok(cmds, input, output) ==
    [kind |-> "ok", cmds |-> cmds, input |-> input, output |-> output,
     is_async |-> FALSE]

Panic ==
    [kind |-> "panic", cmds |-> <<>>, input |-> None, output |-> None,
     is_async |-> FALSE]

\* Nothing parsed yet.
NotParsed ==
    [kind |-> "none", cmds |-> <<>>, input |-> None, output |-> None,
     is_async |-> FALSE]

\* Bug variant of Command_new: the arguments keep the name (cmd_tokens[0..]).
Command_newKeepsName(cmd_tokens) ==
    [cmd |-> cmd_tokens[1], args |-> cmd_tokens]

\* Command::new(cmd_tokens[0].to_string(), cmd_tokens[1..].to_vec())
Command_new(cmd_tokens) ==
    [cmd |-> cmd_tokens[1], args |-> Tail(cmd_tokens)]

\* Bug variant of CmdTokens: split(' ') in place of split_whitespace, which
\* keeps the empty pieces.
CmdTokensSplitBlank(command) == Split(Trim(command), " ")

\* command.trim().split_whitespace().collect()
CmdTokens(command) == SplitWhitespace(Trim(command))

\* Bug variant of Commands: each Command inserted at the front.
CommandsReversed(only_cmds_str) ==
    LET tokens == Split(Trim(only_cmds_str), "|")
    IN  IF \E i \in 1..Len(tokens) : CmdTokens(tokens[i]) = <<>>
        THEN [panic |-> TRUE, cmds |-> <<>>]
        ELSE [panic |-> FALSE,
              cmds |-> [i \in 1..Len(tokens) |->
                           Command_new(CmdTokens(tokens[Len(tokens) + 1 - i]))]]

\* The loop over the stages: one Command per stage, pushed in order;
\* cmd_tokens[0] panics on a stage without tokens.
Commands(only_cmds_str) ==
    LET tokens == Split(Trim(only_cmds_str), "|")
    IN  IF \E i \in 1..Len(tokens) : CmdTokens(tokens[i]) = <<>>
        THEN [panic |-> TRUE, cmds |-> <<>>]
        ELSE [panic |-> FALSE,
              cmds |-> [i \in 1..Len(tokens) |-> Command_new(CmdTokens(tokens[i]))]]

\* Bug variant of RedirOnly: the slice starts at the operator (input[limit..]).
RedirOnlyKeepsOperator(input, limit) == Some(Trim(SliceFrom(input, limit)))

\* Some(PathBuf::from_str(input[limit + 1..].trim()).unwrap())
RedirOnly(input, limit) == Some(Trim(SliceFrom(input, limit + 1)))

\* &tokens[k][1..].trim(): the slice panics on an empty piece.
RedirPiece(piece) ==
    IF Len(piece) < 1 THEN [panic |-> TRUE, path |-> None]
    ELSE [panic |-> FALSE, path |-> Some(Trim(SliceFrom(piece, 1)))]

\* The limit of the commands text when both operators are present.
BothLimit(pos_in, pos_out) == IF pos_in > pos_out THEN pos_out ELSE pos_in

\* The redirection part of Batch::new: limit, redir_in, redir_out.
Redirections(input) ==
    LET pos_in  == Find(input, "<")
        pos_out == Find(input, ">")
    IN  IF pos_in # -1
        THEN IF pos_out # -1
             THEN LET limit     == BothLimit(pos_in, pos_out)
                      remainder == SliceFrom(input, limit)
                      tokens    == Split(remainder, IF pos_in > pos_out THEN "<" ELSE ">")
                      first     == RedirPiece(tokens[1])
                      second    == RedirPiece(tokens[2])
                  IN  [panic     |-> first.panic \/ second.panic,
                       limit     |-> limit,
                       redir_in  |-> IF pos_in > pos_out THEN second.path ELSE first.path,
                       redir_out |-> IF pos_in > pos_out THEN first.path ELSE second.path]
             ELSE [panic |-> FALSE, limit |-> pos_in,
                   redir_in |-> RedirOnly(input, pos_in), redir_out |-> None]
        ELSE IF pos_out # -1
             THEN [panic |-> FALSE, limit |-> pos_out,
                   redir_in |-> None, redir_out |-> RedirOnly(input, pos_out)]
             ELSE [panic |-> FALSE, limit |-> Len(input),
                   redir_in |-> None, redir_out |-> None]

\* Batch::new
Batch_new(input) ==
    IF input = <<>> THEN Ok(<<>>, None, None)
    ELSE LET r == Redirections(input)
         IN  IF r.panic THEN Panic
             ELSE LET c == Commands(SliceTo(input, r.limit))
                  IN  IF c.panic THEN Panic
                      ELSE Ok(c.cmds, r.redir_in, r.redir_out)

\* Job::new of job.rs: no redirection parsing, guarded by is_empty.
Job_new(input) ==
    IF input = <<>> THEN Ok(<<>>, None, None)
    ELSE LET c == Commands(input)
         IN  IF c.panic THEN Panic ELSE Ok(c.cmds, None, None)

\* Job::new of main.rs: no is_empty guard.
Main_Job_new(input) ==
    LET c == Commands(input)
    IN  IF c.panic THEN Panic ELSE Ok(c.cmds, None, None)

-----------------------------------------------------------------------------
\* The line is the argument of the constructor / the line read_line returned.
Init ==
    /\ line \in Lines
    /\ pc = "start"
    /\ res = NotParsed

\* A call of Batch::new on the line.
BatchNew ==
    /\ pc = "start"
    /\ res' = Batch_new(line)
    /\ pc' = "batch"
    /\ UNCHANGED line

\* A call of job.rs's Job::new on the line.
JobNew ==
    /\ pc = "start"
    /\ res' = Job_new(line)
    /\ pc' = "job"
    /\ UNCHANGED line

\* One iteration of main's loop: a non-empty line is parsed; a panic ends
\* the process, otherwise the loop is back at the prompt.
MainIteration ==
    /\ pc = "start"
    /\ res' = IF line # <<>> THEN Main_Job_new(line) ELSE res
    /\ pc' = IF res'.kind = "panic" THEN "aborted" ELSE "prompt"
    /\ UNCHANGED line

Next == BatchNew \/ JobNew \/ MainIteration

Spec == Init /\ [][Next]_vars

-----------------------------------------------------------------------------
(***************************************************************************)
(* Vocabulary of the properties.  These operators describe a line by the   *)
(* positions of its characters and use none of the parser's operators.     *)
(***************************************************************************)
Has(s, c) == \E i \in 1..Len(s) : s[i] = c

CountOf(s, c) == Cardinality({i \in 1..Len(s) : s[i] = c})

IsBlank(s) == \A i \in 1..Len(s) : s[i] = " "

RedirOps == {"<", ">"}

\* 1-based position of the first occurrence of c, Len(s) + 1 when absent.
FirstPos(s, c) ==
    IF Has(s, c)
    THEN CHOOSE i \in 1..Len(s) : s[i] = c /\ \A j \in 1..(i - 1) : s[j] # c
    ELSE Len(s) + 1

\* 1-based position of the first redirection operator, Len(s) + 1 when absent.
FirstOp(s) ==
    IF FirstPos(s, "<") < FirstPos(s, ">") THEN FirstPos(s, "<") ELSE FirstPos(s, ">")

\* The commands substring: the text before the first redirection operator.
CmdText(s) == SubSeq(s, 1, FirstOp(s) - 1)

\* The text that follows position p up to the next redirection operator.
ClauseAfter(s, p) ==
    LET rest == SubSeq(s, p + 1, Len(s))
    IN  SubSeq(rest, 1, FirstOp(rest) - 1)

\* s without its leading and trailing blanks.
Trimmed(s) ==
    IF IsBlank(s) THEN <<>>
    ELSE LET nb == {i \in 1..Len(s) : s[i] # " "}
             lo == CHOOSE i \in nb : \A j \in nb : i <= j
             hi == CHOOSE i \in nb : \A j \in nb : i >= j
         IN  SubSeq(s, lo, hi)

\* Position of the k-th occurrence of c in s; 0 for k = 0, Len(s) + 1 past the last.
NthPos(s, c, k) ==
    LET ps == {i \in 1..Len(s) : s[i] = c}
    IN  IF k = 0 THEN 0
        ELSE IF k > Cardinality(ps) THEN Len(s) + 1
        ELSE CHOOSE p \in ps : Cardinality({q \in ps : q < p}) = k - 1

\* The k-th stage of t: the text between the (k-1)-th and the k-th pipe.
Stage(t, k) == SubSeq(t, NthPos(t, "|", k - 1) + 1, NthPos(t, "|", k) - 1)

NumStages(t) == CountOf(t, "|") + 1

\* The words of s: its maximal runs of non-blank characters, left to right.
Words(s) ==
    LET starts == {i \in 1..Len(s) : s[i] # " " /\ (i = 1 \/ s[i - 1] = " ")}
        ends   == {i \in 1..Len(s) : s[i] # " " /\ (i = Len(s) \/ s[i + 1] = " ")}
        nth(S, k) == CHOOSE p \in S : Cardinality({q \in S : q < p}) = k - 1
    IN  [k \in 1..Cardinality(starts) |-> SubSeq(s, nth(starts, k), nth(ends, k))]

\* The Command a stage with at least one word stands for.
CommandOfStage(st) == [cmd |-> Words(st)[1], args |-> Tail(Words(st))]

\* The characters of the alphabet that are plain text.
Letters == {"a", "b"}

\* t is not blank and none of its stages is blank.
WellFormedStages(t) ==
    ~IsBlank(t) /\ \A k \in 1..NumStages(t) : ~IsBlank(Stage(t, k))

\* The error kinds of the specification's taxonomy.
ErrorKinds == {"EmptyCommandToken", "MalformedRedirection", "UnbalancedRedirection"}

-----------------------------------------------------------------------------
\* C1: every line makes Batch::new return a Pipeline or one of the error
\* kinds, and no line ends the read loop: the parser never aborts.
C1_ParserNeverAborts ==
    /\ pc = "batch" => res.kind \in {"ok"} \cup ErrorKinds
    /\ pc # "aborted"

\* C2: a line whose commands substring is not blank and has an empty stage
\* between, before or after its pipes parses to the error EmptyCommandToken
\* (Batch::new on the text before the first redirection operator, Job::new
\* on the whole line).
C2_EmptyStageIsError ==
    LET t == IF pc = "batch" THEN CmdText(line) ELSE line
    IN  (/\ pc \in {"batch", "job"}
         /\ ~IsBlank(t)
         /\ \E k \in 1..NumStages(t) : IsBlank(Stage(t, k)))
        => res.kind = "EmptyCommandToken"

\* C3: a line with well-formed commands in which a redirection operator is
\* followed by nothing but blanks (each operator occurring at most once)
\* parses to the error
\* MalformedRedirection, and no returned Pipeline holds a redirect that is
\* present with an empty path.
C3_EmptyPathIsError ==
    pc = "batch" =>
        /\ (/\ CountOf(line, "<") <= 1
            /\ CountOf(line, ">") <= 1
            /\ WellFormedStages(CmdText(line))
            /\ \E p \in 1..Len(line) :
                   line[p] \in RedirOps /\ IsBlank(ClauseAfter(line, p)))
           => res.kind = "MalformedRedirection"
        /\ res.kind = "ok" =>
               /\ res.input # None => res.input[1] # <<>>
               /\ res.output # None => res.output[1] # <<>>

\* C4: for a line made of a command text C with well-formed stages, one "<"
\* clause with path P and one ">" clause with path Q (paths of letters), in
\* either order and with any blanks (or none) around the operators, the
\* result is the Pipeline with input_redirect = P, output_redirect = Q and
\* the commands of C alone.
C4_OperatorOrderIndependent ==
    LET P == Trimmed(ClauseAfter(line, FirstPos(line, "<")))
        Q == Trimmed(ClauseAfter(line, FirstPos(line, ">")))
        C == CmdText(line)
    IN  (/\ pc = "batch"
         /\ CountOf(line, "<") = 1
         /\ CountOf(line, ">") = 1
         /\ line[Len(line)] # " "
         /\ P # <<>> /\ \A i \in 1..Len(P) : P[i] \in Letters
         /\ Q # <<>> /\ \A i \in 1..Len(Q) : Q[i] \in Letters
         /\ WellFormedStages(C))
        => /\ res.kind = "ok"
           /\ res.input = Some(P)
           /\ res.output = Some(Q)
           /\ res.cmds = [k \in 1..NumStages(C) |-> CommandOfStage(Stage(C, k))]

\* C5 as stated: a returned Pipeline of a line with n >= 1 pipe characters
\* has n + 1 commands, the i-th built from the i-th stage of the line.
C5_PipesPlusOneCommands ==
    (pc = "batch" /\ res.kind = "ok" /\ CountOf(line, "|") >= 1)
    => /\ Len(res.cmds) = CountOf(line, "|") + 1
       /\ \A k \in 1..Len(res.cmds) :
              ~IsBlank(Stage(line, k)) /\ res.cmds[k] = CommandOfStage(Stage(line, k))

\* C5 amended: a returned Pipeline of a non-empty line has one command more
\* than its commands substring (the text before the first redirection
\* operator) has pipe characters, the i-th built from the i-th stage of that
\* substring; pipes after the first redirection operator add no command.
C5_CmdTextPipesPlusOneCommands ==
    (pc = "batch" /\ res.kind = "ok" /\ line # <<>>)
    => LET t == CmdText(line)
       IN  /\ Len(res.cmds) = NumStages(t)
           /\ \A k \in 1..Len(res.cmds) :
                  ~IsBlank(Stage(t, k)) /\ res.cmds[k] = CommandOfStage(Stage(t, k))

\* C5 witness: two commands with different names from a line with two
\* pipes, one of them after the redirection operator.
C5_Witness ==
    /\ pc = "batch" /\ res.kind = "ok"
    /\ CountOf(line, "|") = 2
    /\ Len(res.cmds) = 2
    /\ res.cmds[1].cmd # res.cmds[2].cmd

\* C6: a line whose commands substring is empty or blank parses to a
\* Pipeline with zero commands (both redirects absent when the whole line is
\* blank), and only such lines give a Pipeline with zero commands.
C6_BlankCommandsGiveEmptyPipeline ==
    pc = "batch" =>
        /\ IsBlank(CmdText(line)) =>
               /\ res.kind = "ok"
               /\ res.cmds = <<>>
               /\ IsBlank(line) => (res.input = None /\ res.output = None)
        /\ (res.kind = "ok" /\ res.cmds = <<>>) => IsBlank(CmdText(line))

\* C7: the background flag of a returned Pipeline is true exactly when the
\* background marker occurs in the line.
C7_AsyncIffMarker ==
    (pc = "batch" /\ res.kind = "ok") => (res.is_async <=> Has(line, "&"))

C10_CommandNamesWellFormed ==
    (pc = "batch" /\ res.kind = "ok")
    => /\ \A k \in 1..Len(res.cmds) :
              /\ res.cmds[k].cmd # <<>>
              /\ \A c \in {" ", "|", "<", ">"} : ~Has(res.cmds[k].cmd, c)
       /\ line # <<>> =>
              /\ Len(res.cmds) = NumStages(CmdText(line))
              /\ \A k \in 1..NumStages(CmdText(line)) : ~IsBlank(Stage(CmdText(line), k))

\* C10 witness: a returned Pipeline with two commands and an output redirect.
C10_Witness ==
    /\ pc = "batch" /\ res.kind = "ok"
    /\ Len(res.cmds) = 2
    /\ Has(line, ">")

====
